---- MODULE Spec2Model ----
(***************************************************************************)
(* Collection traces of differential dataflow: the reference-counted       *)
(* shared trace wrapper (TraceBox / TraceRc, src/src/trace/wrappers/rc.rs), *)
(* batch time advancement (Batch::advance_ref, src/src/trace/mod.rs) and   *)
(* consolidation (consolidate / consolidate_by, src/src/trace/mod.rs).     *)
(*                                                                         *)
(* Three specifications share the module's variables:                      *)
(*   Spec             handles of one TraceBox: make_from, clone,           *)
(*                    advance_by, distinguish_since, drop                  *)
(*   SpecConsolidate  consolidate(vec, off) applied once and twice         *)
(*   SpecAdvance      advance_ref / advance_mut applied to a batch         *)
(*   SpecMonotone     Spec with callers that only move frontiers forward   *)
(*   SpecReader       the handles' read operations, RefCell borrows        *)
(***************************************************************************)
EXTENDS Integers, Sequences, FiniteSets

VARIABLES
    made,       \* Spec: has TraceRc::make_from run
    wrapper,    \* Spec: the TraceBox: the two multisets and the wrapped trace
    handles,    \* Spec: the TraceRc handles, live or dropped
    vec,        \* SpecConsolidate: the vector handed to consolidate
    off,        \* SpecConsolidate: the offset handed to consolidate
    once,       \* SpecConsolidate: the vector after one consolidate
    twice,      \* SpecConsolidate: the vector after a second consolidate
    cpc,        \* SpecConsolidate: position
    batch,      \* SpecAdvance: the batch advance_ref is called on
    frontier,   \* SpecAdvance: the frontier handed to advance_ref
    advanced,   \* SpecAdvance: the batch advance_ref returned
    pushed,     \* SpecAdvance: the tuples pushed to the builder, in order
    apc,        \* SpecAdvance: position
    cuts,       \* SpecReader: the uppers at which the wrapped trace has a clean cut
    borrows,    \* SpecReader: outstanding mutable borrows of the box's RefCell
    inside,     \* SpecReader: the handle whose map_batches callback runs, or 0
    ret,        \* SpecReader: what the last read operation returned
    aborted     \* SpecReader: has the worker panicked

vars == <<made, wrapper, handles, vec, off, once, twice, cpc,
          batch, frontier, advanced, pushed, apc,
          cuts, borrows, inside, ret, aborted>>

rcVars == <<made, wrapper, handles>>
consVars == <<vec, off, once, twice, cpc>>
advVars == <<batch, frontier, advanced, pushed, apc>>
readVars == <<cuts, borrows, inside, ret, aborted>>

(***************************************************************************)
(* Bounds of the model.                                                    *)
(***************************************************************************)
MaxHandles == 2        \* handles of one box alive at the same time
MaxFrontierLen == 2    \* elements of a frontier handed to advance_ref
MaxLen == 3            \* length of a vector handed to consolidate
MaxKey == 2            \* keys of consolidate are 1..MaxKey
MaxDiff == 1           \* diffs are -MaxDiff..MaxDiff
MaxBatchLen == 2       \* updates of a batch handed to advance_ref

(***************************************************************************)
(* Times: a join-semilattice that is not a total order.  A time is a pair  *)
(* of naturals under the product order; the total Ord is lexicographic.    *)
(***************************************************************************)
Max(a, b) == IF a >= b THEN a ELSE b

TimeLe(s, t) == s[1] <= t[1] /\ s[2] <= t[2]

TimeJoin(s, t) == <<Max(s[1], t[1]), Max(s[2], t[2])>>

TimeOrdLt(s, t) == s[1] < t[1] \/ (s[1] = t[1] /\ s[2] < t[2])

Range(s) == {s[i] : i \in DOMAIN s}

\* frontier <= q: some element of the frontier is less or equal to q
FrontierLe(f, q) == \E i \in DOMAIN f : TimeLe(f[i], q)

IsAntichain(S) == \A s \in S : \A t \in S : TimeLe(s, t) => s = t

\* number of occurrences of t in the vector f
Occurrences(f, t) == Cardinality({i \in DOMAIN f : f[i] = t})

\* the orders in which a vector may hold the elements of S
Orderings(S) ==
    {f \in [1..Cardinality(S) -> S] : \A i, j \in DOMAIN f : f[i] = f[j] => i = j}

(***************************************************************************)
(* MutableAntichain<T> (timely): a multiset of times, and the antichain of *)
(* its minimal elements with positive count.                               *)
(***************************************************************************)
RcTime == {<<0, 0>>, <<3, 0>>, <<5, 0>>, <<0, 3>>}

MutableAntichain_new == [t \in RcTime |-> 0]

update_and(m, element, delta) == [m EXCEPT ![element] = @ + delta]

elements(m) ==
    {t \in DOMAIN m : m[t] > 0 /\ \A s \in DOMAIN m : (m[s] > 0 /\ TimeLe(s, t)) => s = t}

\* for element in f { m.update_and(element, delta, |_,_| {}) }
RECURSIVE update_each(_, _, _)
update_each(m, f, delta) ==
    IF f = <<>> THEN m
    ELSE update_each(update_and(m, Head(f), delta), Tail(f), delta)

(***************************************************************************)
(* The wrapped trace records the frontiers it is handed.                   *)
(***************************************************************************)
trace_advance_by(tr, f) == [tr EXCEPT !.advance_frontier = f]

trace_distinguish_since(tr, f) == [tr EXCEPT !.distinguish_frontier = f]

(***************************************************************************)
(* TraceBox                                                                *)
(***************************************************************************)
\* the frontier of a trace is held in some order
RECURSIVE update_set(_, _, _)
update_set(m, S, delta) ==
    IF S = {} THEN m
    ELSE LET t == CHOOSE x \in S : TRUE
         IN update_set(update_and(m, t, delta), S \ {t}, delta)

TraceBox_new(tr) ==
    [advance_frontiers |-> update_set(MutableAntichain_new, tr.advance_frontier, 1),
     through_frontiers |-> update_set(MutableAntichain_new, tr.distinguish_frontier, 1),
     trace |-> tr]

\* the multisets after each update_and of
\* for element in f { m.update_and(element, delta, |_,_| {}) }
RECURSIVE update_steps(_, _, _)
update_steps(m, f, delta) ==
    IF f = <<>> THEN <<>>
    ELSE LET next == update_and(m, Head(f), delta)
         IN <<next>> \o update_steps(next, Tail(f), delta)

\* slip: the elements of lower are released before those of upper are added
adjust_steps_lower_first(m, lower, upper) ==
    LET downs == update_steps(m, lower, -1)
        between == IF downs = <<>> THEN m ELSE downs[Len(downs)]
    IN downs \o update_steps(between, upper, 1)

\* the multisets one call of adjust_advance_frontier or adjust_through_frontier
\* goes through: the loop over upper, then the loop over lower
adjust_steps(m, lower, upper) ==
    LET ups == update_steps(m, upper, 1)
        between == IF ups = <<>> THEN m ELSE ups[Len(ups)]
    IN ups \o update_steps(between, lower, -1)

\* slip: the trace is notified from within the loops, after every update
adjust_notifications_eager(m, lower, upper) ==
    LET steps == adjust_steps(m, lower, upper)
    IN [i \in DOMAIN steps |-> elements(steps[i])]

\* the frontiers one call of adjust_advance_frontier or adjust_through_frontier
\* hands to the trace: one, after both loops
adjust_notifications(m, lower, upper) ==
    LET steps == adjust_steps(m, lower, upper)
    IN <<elements(IF steps = <<>> THEN m ELSE steps[Len(steps)])>>

\* slip: the elements of lower are never released
adjust_advance_frontier_keeps_lower(self, lower, upper) ==
    LET counts == update_each(self.advance_frontiers, upper, 1)
    IN [self EXCEPT !.advance_frontiers = counts,
                    !.trace = trace_advance_by(self.trace, elements(counts))]

\* slip: the trace is handed the caller's frontier, not the aggregate
adjust_advance_frontier_passes_upper(self, lower, upper) ==
    LET counts == update_each(update_each(self.advance_frontiers, upper, 1), lower, -1)
    IN [self EXCEPT !.advance_frontiers = counts,
                    !.trace = trace_advance_by(self.trace, Range(upper))]

adjust_advance_frontier(self, lower, upper) ==
    LET counts == update_each(update_each(self.advance_frontiers, upper, 1), lower, -1)
    IN [self EXCEPT !.advance_frontiers = counts,
                    !.trace = trace_advance_by(self.trace, elements(counts))]

adjust_through_frontier(self, lower, upper) ==
    LET counts == update_each(update_each(self.through_frontiers, upper, 1), lower, -1)
    IN [self EXCEPT !.through_frontiers = counts,
                    !.trace = trace_distinguish_since(self.trace, elements(counts))]

(***************************************************************************)
(* TraceRc                                                                 *)
(***************************************************************************)
Handle == 1..MaxHandles

\* RefCell::borrow_mut succeeds when no borrow of the cell is outstanding; the
\* RefMut of `self.wrapper.borrow_mut().f(..)` is dropped with the statement
borrow_mut == borrows = 0

NoHandle == [live |-> FALSE, advance_frontier |-> <<>>, through_frontier |-> <<>>]

Live == {h \in Handle : handles[h].live}

\* frontiers a caller hands to advance_by / distinguish_since: the empty
\* frontier, every single time, two incomparable times, one time twice
RcFrontiers ==
    {<<>>} \cup {<<t>> : t \in RcTime}
           \cup {<<<<0, 3>>, <<3, 0>>>>, <<<<3, 0>>, <<3, 0>>>>}

\* the frontiers a trace may have when it is boxed
RcAntichains == {Range(f) : f \in {g \in RcFrontiers : Len(g) = Cardinality(Range(g))}}

\* elements().to_vec(): the wrapper only iterates over a handle's vector, so
\* the vector is taken in Ord order
to_vec(S) ==
    CHOOSE f \in Orderings(S) : \A i \in 1..(Len(f) - 1) : TimeOrdLt(f[i], f[i + 1])

\* TraceRc::make_from(trace)
make_from ==
    /\ ~made /\ ~aborted
    /\ LET wrapped == TraceBox_new(wrapper.trace)
       IN /\ wrapper' = wrapped
          /\ handles' = [handles EXCEPT ![1] =
                [live |-> TRUE,
                 advance_frontier |-> to_vec(elements(wrapped.advance_frontiers)),
                 through_frontier |-> to_vec(elements(wrapped.through_frontiers))]]
    /\ made' = TRUE
    /\ UNCHANGED <<consVars, advVars, readVars>>

\* slip: the handle stores the aggregate of the box, not its own frontier
advance_by_stores_aggregate(h, f) ==
    /\ made /\ handles[h].live
    /\ ~aborted /\ borrow_mut
    /\ LET adjusted == adjust_advance_frontier(wrapper, handles[h].advance_frontier, f)
       IN /\ wrapper' = adjusted
          /\ handles' = [handles EXCEPT
                ![h].advance_frontier = to_vec(elements(adjusted.advance_frontiers))]
    /\ UNCHANGED <<made, consVars, advVars, readVars>>

\* TraceRc::advance_by(&mut self, frontier)
advance_by(h, f) ==
    /\ made /\ handles[h].live
    /\ ~aborted /\ borrow_mut
    /\ wrapper' = adjust_advance_frontier(wrapper, handles[h].advance_frontier, f)
    /\ handles' = [handles EXCEPT ![h].advance_frontier = f]
    /\ UNCHANGED <<made, consVars, advVars, readVars>>

\* TraceRc::distinguish_since(&mut self, frontier)
distinguish_since(h, f) ==
    /\ made /\ handles[h].live
    /\ ~aborted /\ borrow_mut
    /\ wrapper' = adjust_through_frontier(wrapper, handles[h].through_frontier, f)
    /\ handles' = [handles EXCEPT ![h].through_frontier = f]
    /\ UNCHANGED <<made, consVars, advVars, readVars>>

\* slip: a clone deposits its advance frontier only
clone_wrapper_advance_only(self, h) ==
    adjust_advance_frontier(self, <<>>, h.advance_frontier)

\* the wrapper after <TraceRc as Clone>::clone(&self)
clone_wrapper(self, h) ==
    adjust_through_frontier(
        adjust_advance_frontier(self, <<>>, h.advance_frontier),
        <<>>, h.through_frontier)

\* the handle <TraceRc as Clone>::clone(&self) returns
clone_handle(h) ==
    [live |-> TRUE,
     advance_frontier |-> h.advance_frontier,
     through_frontier |-> h.through_frontier]

clone(h) ==
    /\ made /\ handles[h].live
    /\ ~aborted /\ borrow_mut
    /\ \E n \in Handle :
        /\ ~handles[n].live
        /\ \A k \in Handle : k < n => handles[k].live
        /\ handles' = [handles EXCEPT ![n] = clone_handle(handles[h])]
    /\ wrapper' = clone_wrapper(wrapper, handles[h])
    /\ UNCHANGED <<made, consVars, advVars, readVars>>

\* slip: drop releases the advance frontier only
drop_wrapper_advance_only(self, h) ==
    adjust_advance_frontier(self, h.advance_frontier, <<>>)

\* the wrapper after <TraceRc as Drop>::drop(&mut self)
drop_wrapper(self, h) ==
    adjust_through_frontier(
        adjust_advance_frontier(self, h.advance_frontier, <<>>),
        h.through_frontier, <<>>)

drop(h) ==
    /\ made /\ handles[h].live
    /\ ~aborted /\ borrow_mut
    /\ wrapper' = drop_wrapper(wrapper, handles[h])
    /\ handles' = [handles EXCEPT ![h] = NoHandle]
    /\ UNCHANGED <<made, consVars, advVars, readVars>>

ConsIdle ==
    vec = <<>> /\ off = 0 /\ once = <<>> /\ twice = <<>> /\ cpc = "idle"

AdvIdle ==
    /\ batch = [lower |-> <<>>, upper |-> <<>>, since |-> <<>>, updates |-> <<>>]
    /\ frontier = <<>>
    /\ advanced = [lower |-> <<>>, upper |-> <<>>, since |-> <<>>, updates |-> <<>>]
    /\ pushed = <<>>
    /\ apc = "idle"

ReadIdle ==
    cuts = {} /\ borrows = 0 /\ inside = 0 /\ ret = <<"unit">> /\ aborted = FALSE

RcIdle ==
    /\ made = FALSE
    /\ wrapper = TraceBox_new([advance_frontier |-> {}, distinguish_frontier |-> {}])
    /\ handles = [h \in Handle |-> NoHandle]

\* a trace, with frontiers of its own, about to be handed to make_from
Init ==
    /\ made = FALSE
    /\ \E a \in RcAntichains : \E d \in RcAntichains :
          wrapper = [advance_frontiers |-> MutableAntichain_new,
                     through_frontiers |-> MutableAntichain_new,
                     trace |-> [advance_frontier |-> a, distinguish_frontier |-> d]]
    /\ handles = [h \in Handle |-> NoHandle]
    /\ ConsIdle /\ AdvIdle /\ ReadIdle

Next ==
    \/ make_from
    \/ \E h \in Handle : \E f \in RcFrontiers : advance_by(h, f)
    \/ \E h \in Handle : \E f \in RcFrontiers : distinguish_since(h, f)
    \/ \E h \in Handle : clone(h)
    \/ \E h \in Handle : drop(h)

Spec == Init /\ [][Next]_vars

(***************************************************************************)
(* consolidate / consolidate_by.  A vector element is <<key, diff>>; the   *)
(* Rust index i of a vector is position i + 1 of the sequence.             *)
(***************************************************************************)
\* the comparator consolidate hands to consolidate_by (|x,y| x.cmp(&y)),
\* for integer keys
IntLt(x, y) == x < y

\* vec[off..].sort_by(|x,y| cmp(&x.0, &y.0)): a stable sort of the suffix.
\* Element i of the suffix moves behind the elements with a smaller key and
\* the elements with an equivalent key that stood before it.
sort_by(s) ==
    LET before(i) == {j \in DOMAIN s :
                        \/ IntLt(s[j][1], s[i][1])
                        \/ (~IntLt(s[i][1], s[j][1]) /\ j < i)}
    IN [k \in DOMAIN s |-> s[CHOOSE i \in DOMAIN s : Cardinality(before(i)) + 1 = k]]

\* the same sort with the Ord of times
sort_by_time(s) ==
    LET before(i) == {j \in DOMAIN s :
                        \/ TimeOrdLt(s[j][1], s[i][1])
                        \/ (~TimeOrdLt(s[i][1], s[j][1]) /\ j < i)}
    IN [k \in DOMAIN s |-> s[CHOOSE i \in DOMAIN s : Cardinality(before(i)) + 1 = k]]

\* slip: the summed element is not zeroed
sum_step_keeps_both(v, index) ==
    IF v[index][1] = v[index - 1][1]
    THEN [v EXCEPT ![index] = <<v[index][1], v[index][2] + v[index - 1][2]>>]
    ELSE v

\* the body of `for index in (off + 1) .. vec.len()` at position index
sum_step(v, index) ==
    IF v[index][1] = v[index - 1][1]
    THEN [v EXCEPT ![index] = <<v[index][1], v[index][2] + v[index - 1][2]>>,
                   ![index - 1] = <<v[index - 1][1], 0>>]
    ELSE v

\* the loop from Rust index `index` (position index + 1) to the end
RECURSIVE sum_loop(_, _)
sum_loop(v, index) ==
    IF index >= Len(v) THEN v
    ELSE sum_loop(sum_step(v, index + 1), index + 1)

\* slip: the sweep starts at off, and sums vec[off - 1] into vec[off]
sum_adjacent_from_off(v, o) == sum_loop(v, IF o = 0 THEN 1 ELSE o)

\* for index in (off + 1) .. vec.len() { ... }
sum_adjacent(v, o) == sum_loop(v, o + 1)

swap(v, a, b) == [v EXCEPT ![a + 1] = v[b + 1], ![b + 1] = v[a + 1]]

\* for index in off .. vec.len() { if !vec[index].1.is_zero() { swap; cursor += 1 } }
\* the result is <<vec, cursor>>
RECURSIVE compact_loop(_, _, _)
compact_loop(v, cursor, index) ==
    IF index >= Len(v) THEN <<v, cursor>>
    ELSE IF v[index + 1][2] # 0
         THEN compact_loop(swap(v, cursor, index), cursor + 1, index + 1)
         ELSE compact_loop(v, cursor, index + 1)

\* vec.truncate(cursor)
truncate(v, cursor) == SubSeq(v, 1, cursor)

\* what follows the sort in consolidate_by
sum_and_compact(v, o) ==
    LET summed == sum_adjacent(v, o)
        moved == compact_loop(summed, o, o)
    IN truncate(moved[1], moved[2])

\* slip: the suffix is not sorted before the sweep
consolidate_unsorted(v, o) == sum_and_compact(v, o)

\* consolidate(vec, off) = consolidate_by(vec, off, |x,y| x.cmp(&y)), integer keys
consolidate(v, o) ==
    sum_and_compact(SubSeq(v, 1, o) \o sort_by(SubSeq(v, o + 1, Len(v))), o)

\* consolidate(vec, off) for (time, diff) pairs
consolidate_times(v, o) ==
    sum_and_compact(SubSeq(v, 1, o) \o sort_by_time(SubSeq(v, o + 1, Len(v))), o)

Keys == 1..MaxKey

Diffs == (0 - MaxDiff)..MaxDiff

Vecs == UNION {[1..n -> Keys \X Diffs] : n \in 0..MaxLen}

ConsolidateOnce ==
    /\ cpc = "start"
    /\ once' = consolidate(vec, off)
    /\ cpc' = "once"
    /\ UNCHANGED <<vec, off, twice, rcVars, advVars, readVars>>

ConsolidateTwice ==
    /\ cpc = "once"
    /\ twice' = consolidate(once, off)
    /\ cpc' = "twice"
    /\ UNCHANGED <<vec, off, once, rcVars, advVars, readVars>>

InitConsolidate ==
    /\ vec \in Vecs
    /\ off \in 0..Len(vec)
    /\ once = <<>> /\ twice = <<>> /\ cpc = "start"
    /\ RcIdle /\ AdvIdle /\ ReadIdle

NextConsolidate == ConsolidateOnce \/ ConsolidateTwice

SpecConsolidate == InitConsolidate /\ [][NextConsolidate]_vars

(***************************************************************************)
(* Properties of consolidate                                               *)
(***************************************************************************)
RECURSIVE SumAt(_, _)
SumAt(v, t) ==
    IF v = <<>> THEN 0
    ELSE (IF Head(v)[1] = t THEN Head(v)[2] ELSE 0) + SumAt(Tail(v), t)

\* the diff stored at key t, 0 if t is absent
StoredAt(v, t) ==
    IF \E i \in DOMAIN v : v[i][1] = t
    THEN v[CHOOSE i \in DOMAIN v : v[i][1] = t][2]
    ELSE 0

Consolidated(v) ==
    /\ \A i \in 1..(Len(v) - 1) : v[i][1] < v[i + 1][1]
    /\ \A i \in DOMAIN v : v[i][2] # 0

\* C6: consolidation correctness. After consolidate(v, 0) the keys are in
\* strictly increasing order (so pairwise distinct), every diff is non-zero,
\* and the diff stored at each key (0 if absent) is the sum of the diffs the
\* original v held at that key; [(1,+2),(1,-2),(2,+1),(2,+1),(3,0)] becomes
\* [(2,+2)].
ConsolidationCorrect ==
    /\ (cpc # "start" /\ off = 0) =>
          /\ Consolidated(once)
          /\ \A t \in Keys : StoredAt(once, t) = SumAt(vec, t)
    /\ consolidate(<<<<1, 2>>, <<1, -2>>, <<2, 1>>, <<2, 1>>, <<3, 0>>>>, 0) = <<<<2, 2>>>>

\* an unsorted vector with a key that cancels and a key that sums
ConsolidationCorrectWitness ==
    /\ cpc = "once" /\ off = 0
    /\ vec = <<<<2, 1>>, <<1, 1>>, <<2, 1>>>>
    /\ once = <<<<1, 1>>, <<2, 2>>>>

\* C7: consolidation idempotence. For every v and off <= len(v), a second
\* consolidate with the same off leaves the vector as the first left it.
ConsolidationIdempotent ==
    cpc = "twice" => twice = once

\* a second run over a vector the first run shortened behind a kept prefix
ConsolidationIdempotentWitness ==
    /\ cpc = "twice" /\ off = 1
    /\ vec = <<<<1, 1>>, <<1, 1>>, <<1, -1>>>>
    /\ once = <<<<1, 1>>>>
    /\ twice = <<<<1, 1>>>>

\* C8: consolidate leaves the prefix alone. For every v and off <= len(v)
\* the elements v[0..off) keep key, diff and position, also when a prefix
\* element has the key of a suffix element or a zero diff; what follows the
\* prefix is the consolidation of v[off..] alone.
PrefixUntouched ==
    cpc # "start" =>
        /\ Len(once) >= off
        /\ SubSeq(once, 1, off) = SubSeq(vec, 1, off)
        /\ SubSeq(once, off + 1, Len(once)) = consolidate(SubSeq(vec, off + 1, Len(vec)), 0)

\* the prefix element has a zero diff and the key of the suffix elements
PrefixUntouchedWitness ==
    /\ cpc = "once" /\ off = 1
    /\ vec = <<<<2, 0>>, <<2, 1>>, <<2, 1>>>>
    /\ once = <<<<2, 0>>, <<2, 2>>>>

(***************************************************************************)
(* Batch::advance_ref.  A batch is its description (lower, upper, since)   *)
(* and its updates <<key, val, time, diff>>, sorted by (key, val, time).   *)
(***************************************************************************)
\* the times of batches: the square in which <<0, 1>> and <<1, 0>> are incomparable
TimeCoord == {0, 1}

Time == TimeCoord \X TimeCoord

RECURSIVE JoinAll(_, _)
JoinAll(f, t) ==
    IF Len(f) = 1 THEN TimeJoin(f[1], t)
    ELSE TimeJoin(TimeJoin(f[1], t), JoinAll(Tail(f), t))

\* Lattice::advance_by(&self, frontier)
time_advance_by(t, f) ==
    IF Len(f) = 0 THEN t
    ELSE IF \E i \in DOMAIN f : TimeLe(f[i], t) THEN t
    ELSE JoinAll(f, t)

\* cursor.map_times(&storage, |time, diff| times.push((time.advance_by(frontier), diff)))
map_times(group, f) ==
    [i \in DOMAIN group |-> <<time_advance_by(group[i][3], f), group[i][4]>>]

\* the updates the cursor holds at its first (key, val)
RECURSIVE first_group(_, _, _)
first_group(us, k, v) ==
    IF us = <<>> \/ Head(us)[1] # k \/ Head(us)[2] # v THEN <<>>
    ELSE <<Head(us)>> \o first_group(Tail(us), k, v)

\* slip: the advanced times are pushed without consolidation
push_group_unconsolidated(group, f) ==
    LET times == map_times(group, f)
    IN [i \in DOMAIN times |-> <<group[1][1], group[1][2], times[i][1], times[i][2]>>]

\* the body of `while cursor.val_valid`: what one (key, val) pushes
push_group(group, f) ==
    LET times == consolidate_times(map_times(group, f), 0)
    IN [i \in DOMAIN times |-> <<group[1][1], group[1][2], times[i][1], times[i][2]>>]

\* the two cursor loops: everything pushed to the builder, in order
RECURSIVE advance_pushes(_, _)
advance_pushes(us, f) ==
    IF us = <<>> THEN <<>>
    ELSE LET group == first_group(us, Head(us)[1], Head(us)[2])
         IN push_group(group, f)
              \o advance_pushes(SubSeq(us, Len(group) + 1, Len(us)), f)

\* Builder::done(self, lower, upper, since)
builder_done(pushes, lower, upper, since) ==
    [lower |-> lower, upper |-> upper, since |-> since, updates |-> pushes]

\* slip: the batch keeps the since it had
advance_ref_keeps_since(b, f) ==
    builder_done(advance_pushes(b.updates, f), b.lower, b.upper, b.since)

\* Batch::advance_ref(&self, frontier), past its assertion
advance_ref(b, f) ==
    builder_done(advance_pushes(b.updates, f), b.lower, b.upper, f)

BatchKeys == {1, 2}

BatchVals == {1, 2}

BatchDiffs == {-1, 1}

UpdateLt(a, b) ==
    \/ a[1] < b[1]
    \/ a[1] = b[1] /\ a[2] < b[2]
    \/ a[1] = b[1] /\ a[2] = b[2] /\ TimeOrdLt(a[3], b[3])

\* sorted runs of updates, one per (key, val, time), no zero diff
UpdateRuns ==
    {us \in UNION {[1..n -> BatchKeys \X BatchVals \X Time \X BatchDiffs] :
                      n \in 0..MaxBatchLen} :
        \A i \in 1..(Len(us) - 1) : UpdateLt(us[i], us[i + 1])}

\* frontiers handed to advance_ref: the antichains of Time, in Ord order
AdvFrontiers ==
    {f \in UNION {[1..n -> Time] : n \in 0..MaxFrontierLen} :
        /\ \A i \in 1..(Len(f) - 1) : TimeOrdLt(f[i], f[i + 1])
        /\ IsAntichain(Range(f))}

Bottom == <<0, 0>>

\* an upper frontier no time of Time is in advance of
Beyond == <<<<0, 2>>, <<2, 0>>>>

AdvanceRef ==
    /\ apc = "start"
    /\ Len(frontier) > 0
    /\ advanced' = advance_ref(batch, frontier)
    /\ pushed' = advance_pushes(batch.updates, frontier)
    /\ apc' = "done"
    /\ UNCHANGED <<batch, frontier, rcVars, consVars, readVars>>

\* slip: no assertion, an empty frontier leaves the times as they are
AdvanceRefUnchecked ==
    /\ apc = "start"
    /\ Len(frontier) = 0
    /\ advanced' = advance_ref(batch, frontier)
    /\ pushed' = advance_pushes(batch.updates, frontier)
    /\ apc' = "done"
    /\ UNCHANGED <<batch, frontier, rcVars, consVars, readVars>>

\* assert!(frontier.len() > 0) fails
AdvanceRefAbort ==
    /\ apc = "start"
    /\ Len(frontier) = 0
    /\ apc' = "aborted"
    /\ UNCHANGED <<batch, frontier, advanced, pushed, rcVars, consVars, readVars>>

\* Batch::advance_mut(&mut self, frontier): *self = self.advance_ref(frontier)
AdvanceMut ==
    /\ apc = "start"
    /\ Len(frontier) > 0
    /\ batch' = advance_ref(batch, frontier)
    /\ pushed' = advance_pushes(batch.updates, frontier)
    /\ apc' = "mutated"
    /\ UNCHANGED <<frontier, advanced, rcVars, consVars, readVars>>

\* the assertion of the advance_ref that advance_mut calls fails, before the
\* assignment to *self
AdvanceMutAbort ==
    /\ apc = "start"
    /\ Len(frontier) = 0
    /\ apc' = "aborted in advance_mut"
    /\ UNCHANGED <<batch, frontier, advanced, pushed, rcVars, consVars, readVars>>

InitAdvance ==
    /\ \E us \in UpdateRuns :
       \E up \in {<<>>, Beyond} :
       \E si \in {<<Bottom>>, <<<<1, 0>>>>} :
          batch = [lower |-> <<Bottom>>, upper |-> up, since |-> si, updates |-> us]
    /\ frontier \in AdvFrontiers
    /\ advanced = [lower |-> <<>>, upper |-> <<>>, since |-> <<>>, updates |-> <<>>]
    /\ pushed = <<>>
    /\ apc = "start"
    /\ RcIdle /\ ConsIdle /\ ReadIdle

NextAdvance == AdvanceRef \/ AdvanceRefAbort \/ AdvanceMut \/ AdvanceMutAbort

SpecAdvance == InitAdvance /\ [][NextAdvance]_vars

(***************************************************************************)
(* Properties of advance_ref                                               *)
(***************************************************************************)
\* the sum of diff over the updates of (k, v) with time <= q
RECURSIVE Accumulate(_, _, _, _)
Accumulate(us, k, v, q) ==
    IF us = <<>> THEN 0
    ELSE (IF Head(us)[1] = k /\ Head(us)[2] = v /\ TimeLe(Head(us)[3], q)
          THEN Head(us)[4] ELSE 0)
         + Accumulate(Tail(us), k, v, q)

\* C4: accumulation preservation under advance. For every batch B, frontier
\* F and query time q with F <= q, and every (key, val), the sum of diff over
\* the updates of B with time <= q equals the sum over B.advance_ref(F).
AccumulationPreserved ==
    apc = "done" =>
        \A q \in Time : FrontierLe(frontier, q) =>
            \A k \in BatchKeys : \A v \in BatchVals :
                Accumulate(batch.updates, k, v, q) = Accumulate(advanced.updates, k, v, q)

\* C5: time relabelling preserves comparisons above the frontier. For every
\* time t, antichain frontier and query time q with frontier <= q:
\* t <= q if and only if t.advance_by(frontier) <= q.
ComparisonsPreserved ==
    apc = "done" =>
        \A t \in Time : \A q \in Time :
            FrontierLe(frontier, q) =>
                (TimeLe(t, q) <=> TimeLe(time_advance_by(t, frontier), q))

\* C9: advance_ref keeps the interval and records the frontier. The batch
\* advance_ref(F) returns has the lower and the upper of B and since F,
\* whatever since B had, and B is left as it was.
AdvanceKeepsInterval ==
    [][AdvanceRef =>
        /\ advanced'.lower = batch.lower
        /\ advanced'.upper = batch.upper
        /\ advanced'.since = frontier
        /\ batch' = batch]_vars

\* a batch of two updates with a since and an upper of its own, advanced by
\* a frontier of two incomparable times
AdvanceKeepsIntervalWitness ==
    /\ apc = "done"
    /\ Len(batch.updates) = 2
    /\ batch.since = <<<<1, 0>>>>
    /\ batch.upper = Beyond
    /\ frontier = <<<<0, 1>>, <<1, 0>>>>
    /\ advanced.since = frontier
    /\ advanced.upper = Beyond
    /\ advanced.lower = <<Bottom>>

(***************************************************************************)
(* Properties of the shared trace wrapper                                  *)
(***************************************************************************)
RECURSIVE HeldAdvance(_, _)
HeldAdvance(H, t) ==
    IF H = {} THEN 0
    ELSE LET h == CHOOSE x \in H : TRUE
         IN Occurrences(handles[h].advance_frontier, t) + HeldAdvance(H \ {h}, t)

RECURSIVE HeldThrough(_, _)
HeldThrough(H, t) ==
    IF H = {} THEN 0
    ELSE LET h == CHOOSE x \in H : TRUE
         IN Occurrences(handles[h].through_frontier, t) + HeldThrough(H \ {h}, t)

MinimalElements(S) == {t \in S : \A s \in S : TimeLe(s, t) => s = t}

LiveAdvance == UNION {Range(handles[h].advance_frontier) : h \in Live}

LiveThrough == UNION {Range(handles[h].through_frontier) : h \in Live}

\* C1: frontier accounting. Once make_from has run, after any sequence of
\* clone, advance_by, distinguish_since and drop, the count of every time in
\* the box's advance multiset equals its number of occurrences over the
\* advance_frontier fields of the live handles; likewise the through multiset
\* and the through_frontier fields.
FrontierAccounting ==
    made => \A t \in RcTime :
        /\ wrapper.advance_frontiers[t] = HeldAdvance(Live, t)
        /\ wrapper.through_frontiers[t] = HeldThrough(Live, t)

\* two live handles, one of which was advanced and distinguished to vectors
\* that hold a time twice
FrontierAccountingWitness ==
    /\ made /\ Live = {1, 2}
    /\ handles[1].advance_frontier = <<<<3, 0>>, <<3, 0>>>>
    /\ handles[2].advance_frontier = <<<<3, 0>>>>
    /\ handles[1].through_frontier = <<<<3, 0>>, <<3, 0>>>>
    /\ handles[2].through_frontier = <<<<0, 3>>, <<3, 0>>>>
    /\ wrapper.advance_frontiers[<<3, 0>>] = 3
    /\ wrapper.through_frontiers[<<3, 0>>] = 3

\* C2: handle protection. For every live handle and every element x of its
\* declared advance frontier, the advance frontier the trace holds (the one
\* last handed to it, or its initial one) has an element a <= x; likewise
\* for the through frontier and the trace's distinguish frontier.
HandleProtection ==
    made => \A h \in Live :
        /\ \A i \in DOMAIN handles[h].advance_frontier :
              \E a \in wrapper.trace.advance_frontier :
                 TimeLe(a, handles[h].advance_frontier[i])
        /\ \A i \in DOMAIN handles[h].through_frontier :
              \E a \in wrapper.trace.distinguish_frontier :
                 TimeLe(a, handles[h].through_frontier[i])

\* two live handles at incomparable times, and the trace held back to both
HandleProtectionWitness ==
    /\ made /\ Live = {1, 2}
    /\ handles[1].advance_frontier = <<<<5, 0>>>>
    /\ handles[2].advance_frontier = <<<<0, 3>>>>
    /\ wrapper.trace.advance_frontier = {<<5, 0>>, <<0, 3>>}
    /\ handles[1].through_frontier = <<<<0, 0>>>>
    /\ handles[2].through_frontier = <<<<5, 0>>>>
    /\ wrapper.trace.distinguish_frontier = {<<0, 0>>}

\* C3: exact aggregate. After every handle operation the advance frontier
\* the trace holds is the antichain of minimal elements of the union of the
\* live handles' advance frontiers (empty when no handle is live); likewise
\* the distinguish frontier and the through frontiers.
ExactAggregate ==
    made =>
        /\ wrapper.trace.advance_frontier = MinimalElements(LiveAdvance)
        /\ wrapper.trace.distinguish_frontier = MinimalElements(LiveThrough)

\* the scenario of two handles at [0]: H1 advanced to [5], H2 to [3], and
\* the aggregate is [3], no longer [0] and not yet [5]
ExactAggregateWitness ==
    /\ made /\ Live = {1, 2}
    /\ handles[1].advance_frontier = <<<<5, 0>>>>
    /\ handles[2].advance_frontier = <<<<3, 0>>>>
    /\ handles[1].through_frontier = <<<<0, 0>>>>
    /\ handles[2].through_frontier = <<<<0, 0>>>>
    /\ wrapper.trace.advance_frontier = {<<3, 0>>}

\* C10: drop nets a handle's contribution to zero. Cloning a live handle and
\* dropping the clone leaves both multisets as they were; dropping a live
\* handle lowers the count of each time by its number of occurrences in the
\* handle's advance (through) frontier and changes nothing else; with every
\* handle dropped both multisets are zero everywhere.
DropNetsToZero ==
    made =>
        /\ \A h \in Live :
              LET cloned == clone_wrapper(wrapper, handles[h])
                  back == drop_wrapper(cloned, clone_handle(handles[h]))
                  dropped == drop_wrapper(wrapper, handles[h])
              IN /\ back.advance_frontiers = wrapper.advance_frontiers
                 /\ back.through_frontiers = wrapper.through_frontiers
                 /\ \A t \in RcTime :
                      /\ dropped.advance_frontiers[t] = wrapper.advance_frontiers[t]
                            - Occurrences(handles[h].advance_frontier, t)
                      /\ dropped.through_frontiers[t] = wrapper.through_frontiers[t]
                            - Occurrences(handles[h].through_frontier, t)
        /\ Live = {} => \A t \in RcTime :
              wrapper.advance_frontiers[t] = 0 /\ wrapper.through_frontiers[t] = 0

\* every handle has been dropped, the last one from a box that held counts
DropNetsToZeroWitness ==
    /\ made /\ Live = {}
    /\ \A t \in RcTime :
          wrapper.advance_frontiers[t] = 0 /\ wrapper.through_frontiers[t] = 0
    /\ wrapper.trace.advance_frontier = {} /\ wrapper.trace.distinguish_frontier = {}

\* F <= G in the order of antichains: every element of G is in advance of F
AntichainLe(F, G) == \A y \in G : \E x \in F : TimeLe(x, y)

\* C11: backward frontier moves abort. A call of advance_by (or
\* distinguish_since) on a handle with a frontier that is not >= the frontier
\* the handle declared before changes neither the box's multisets nor the
\* frontiers the trace holds, nor the handle.
BackwardMovesAbort ==
    [][\A h \in Handle : \A f \in RcFrontiers :
        /\ (advance_by(h, f)
              /\ ~AntichainLe(Range(handles[h].advance_frontier), Range(f)))
           => UNCHANGED <<wrapper, handles>>
        /\ (distinguish_since(h, f)
              /\ ~AntichainLe(Range(handles[h].through_frontier), Range(f)))
           => UNCHANGED <<wrapper, handles>>]_vars

(***************************************************************************)
(* The read operations of a handle.  The box is a RefCell: an operation    *)
(* borrows it mutably for the length of one call, and map_batches holds    *)
(* its borrow while the caller's callback runs.                            *)
(***************************************************************************)
None == <<"none">>

Some(x) == <<"some", x>>

\* frontiers handed to the operations of SpecReader
ReadFrontiers == {<<>>, <<<<3, 0>>>>}

\* the wrapped trace's cursor_through(upper): a cursor over the batches up to
\* upper when the trace has a clean cut there
trace_cursor_through(c, upper) ==
    IF Range(upper) \in c THEN Some(<<"cursor", Range(upper)>>) ELSE None

\* slip: no cursor at an upper the handle's own through frontier is not below
TraceRc_cursor_through_guarded(h, upper) ==
    IF \A y \in Range(upper) : \E x \in Range(handles[h].through_frontier) : TimeLe(x, y)
    THEN trace_cursor_through(cuts, upper)
    ELSE None

\* what TraceRc::cursor_through(&mut self, frontier) returns
TraceRc_cursor_through(h, upper) == trace_cursor_through(cuts, upper)

\* slip: the cursor is taken by advancing the trace to upper
cursor_through_advancing(h, upper) ==
    /\ made /\ handles[h].live
    /\ ~aborted /\ borrow_mut
    /\ ret' = TraceRc_cursor_through(h, upper)
    /\ wrapper' = [wrapper EXCEPT !.trace = trace_advance_by(@, Range(upper))]
    /\ UNCHANGED <<made, handles, consVars, advVars, cuts, borrows, inside, aborted>>

cursor_through(h, upper) ==
    /\ made /\ handles[h].live
    /\ ~aborted /\ borrow_mut
    /\ ret' = TraceRc_cursor_through(h, upper)
    /\ UNCHANGED <<rcVars, consVars, advVars, cuts, borrows, inside, aborted>>

\* TraceReader::cursor(&mut self), the default method
cursor(h) ==
    /\ made /\ handles[h].live
    /\ ~aborted /\ borrow_mut
    /\ LET got == TraceRc_cursor_through(h, <<>>)
       IN IF got # None
          THEN ret' = got[2] /\ aborted' = aborted
          ELSE /\ ret' = <<"panic", "unable to acquire complete cursor for trace; is it closed?">>
               /\ aborted' = TRUE
    /\ UNCHANGED <<rcVars, consVars, advVars, cuts, borrows, inside>>

\* TraceRc::map_batches(&mut self, f): the borrow is taken and f starts to run
map_batches(h) ==
    /\ made /\ handles[h].live
    /\ ~aborted /\ borrow_mut
    /\ borrows' = borrows + 1
    /\ inside' = h
    /\ UNCHANGED <<rcVars, consVars, advVars, cuts, ret, aborted>>

\* f has returned for the last batch: the RefMut is dropped, map_batches returns
map_batches_return ==
    /\ inside # 0 /\ ~aborted
    /\ borrows' = borrows - 1
    /\ inside' = 0
    /\ ret' = <<"unit">>
    /\ UNCHANGED <<rcVars, consVars, advVars, cuts, aborted>>

\* the operations of a handle that start with borrow_mut
BorrowingOps ==
    {"advance_by", "distinguish_since", "cursor_through", "map_batches", "clone", "drop"}

\* inside the callback of map_batches, an operation of another handle of the
\* same box: its borrow_mut finds the cell borrowed and panics
reenter(g, op) ==
    /\ inside # 0 /\ g # inside
    /\ made /\ handles[g].live
    /\ ~aborted /\ ~borrow_mut
    /\ ret' = <<"panic", "BorrowMutError", op>>
    /\ aborted' = TRUE
    /\ UNCHANGED <<rcVars, consVars, advVars, cuts, borrows, inside>>

\* TraceRc::advance_frontier(&mut self): the handle's own vector, no borrow
advance_frontier(h) ==
    /\ made /\ handles[h].live /\ h # inside
    /\ ~aborted
    /\ ret' = <<"frontier", handles[h].advance_frontier>>
    /\ UNCHANGED <<rcVars, consVars, advVars, cuts, borrows, inside, aborted>>

\* TraceRc::distinguish_frontier(&mut self)
distinguish_frontier(h) ==
    /\ made /\ handles[h].live /\ h # inside
    /\ ~aborted
    /\ ret' = <<"frontier", handles[h].through_frontier>>
    /\ UNCHANGED <<rcVars, consVars, advVars, cuts, borrows, inside, aborted>>

\* a trace at [(0, 0)] in both dimensions, with or without a clean cut at the
\* empty antichain and at [(3, 0)]
InitReader ==
    /\ made = FALSE
    /\ wrapper = [advance_frontiers |-> MutableAntichain_new,
                  through_frontiers |-> MutableAntichain_new,
                  trace |-> [advance_frontier |-> {<<0, 0>>},
                             distinguish_frontier |-> {<<0, 0>>}]]
    /\ handles = [h \in Handle |-> NoHandle]
    /\ cuts \in SUBSET {Range(f) : f \in ReadFrontiers}
    /\ borrows = 0 /\ inside = 0 /\ ret = <<"unit">> /\ aborted = FALSE
    /\ ConsIdle /\ AdvIdle

NextReader ==
    \/ make_from
    \/ \E h \in Handle : \E f \in ReadFrontiers : advance_by(h, f)
    \/ \E h \in Handle : \E f \in ReadFrontiers : distinguish_since(h, f)
    \/ \E h \in Handle : clone(h)
    \/ \E h \in Handle : drop(h)
    \/ \E h \in Handle : \E upper \in ReadFrontiers : cursor_through(h, upper)
    \/ \E h \in Handle : cursor(h)
    \/ \E h \in Handle : map_batches(h)
    \/ map_batches_return
    \/ \E g \in Handle : \E op \in BorrowingOps : reenter(g, op)
    \/ \E h \in Handle : advance_frontier(h)
    \/ \E h \in Handle : distinguish_frontier(h)

SpecReader == InitReader /\ [][NextReader]_vars

\* C12: cursor() and cursor_through. cursor() returns the cursor that
\* cursor_through of the empty antichain holds when it holds one, and panics
\* exactly when cursor_through of the empty antichain is none; cursor_through
\* of a handle returns what the wrapped trace's cursor_through returns for the
\* same upper, none included, without a panic and whatever the handle's own
\* through frontier is.
CursorDelegates ==
    [][\A h \in Handle :
        /\ \A upper \in ReadFrontiers :
              cursor_through(h, upper) =>
                 /\ ret' = trace_cursor_through(cuts, upper)
                 /\ ~aborted'
        /\ cursor(h) =>
              /\ aborted' <=> trace_cursor_through(cuts, <<>>) = None
              /\ ~aborted' => Some(ret') = trace_cursor_through(cuts, <<>>)
              /\ aborted' => ret'[1] = "panic"]_vars

\* the trace has no clean cut at the empty antichain, a handle whose through
\* frontier is empty has called cursor(), and the worker has panicked
CursorDelegatesWitness ==
    /\ aborted /\ ret[1] = "panic" /\ ret[2] # "BorrowMutError"
    /\ {} \notin cuts /\ {<<3, 0>>} \in cuts
    /\ \E h \in Live : handles[h].through_frontier = <<>>

\* C13: no nested borrows. At most one mutable borrow of the box is
\* outstanding, no borrow outlives the operation that took it, and no
\* operation of a handle is attempted while a borrow of its box is held, the
\* callback of map_batches included: the borrow-conflict panic is never reached.
NoNestedBorrows ==
    /\ borrows <= 1
    /\ inside = 0 => borrows = 0
    /\ ~(aborted /\ ret[1] = "panic" /\ ret[2] = "BorrowMutError")

\* a step of one of the read operations of a handle
ReadStep ==
    \/ \E h \in Handle : \E upper \in ReadFrontiers : cursor_through(h, upper)
    \/ \E h \in Handle : cursor(h)
    \/ \E h \in Handle : map_batches(h)
    \/ map_batches_return
    \/ \E h \in Handle : advance_frontier(h)
    \/ \E h \in Handle : distinguish_frontier(h)

\* the vectors a handle operation may hand to adjust_advance_frontier or
\* adjust_through_frontier as lower or upper
AdjustArgs ==
    ReadFrontiers \cup {handles[h].advance_frontier : h \in Handle}
                  \cup {handles[h].through_frontier : h \in Handle}

\* C14: single path for frontier changes. A step that changes the advance
\* (distinguish) frontier the trace holds leaves the box as a call of
\* adjust_advance_frontier (adjust_through_frontier) leaves it; the read
\* operations cursor_through, cursor, map_batches, advance_frontier() and
\* distinguish_frontier() change neither the multisets, nor the frontiers of
\* the trace, nor the declared frontiers of any handle.
FrontiersChangeByAdjust ==
    [][/\ ReadStep => UNCHANGED <<wrapper, handles>>
       /\ wrapper'.trace.advance_frontier # wrapper.trace.advance_frontier =>
             \E lower \in AdjustArgs : \E upper \in AdjustArgs :
                LET adjusted == adjust_advance_frontier(wrapper, lower, upper)
                IN /\ wrapper'.trace.advance_frontier = adjusted.trace.advance_frontier
                   /\ wrapper'.advance_frontiers = adjusted.advance_frontiers
       /\ wrapper'.trace.distinguish_frontier # wrapper.trace.distinguish_frontier =>
             \E lower \in AdjustArgs : \E upper \in AdjustArgs :
                LET adjusted == adjust_through_frontier(wrapper, lower, upper)
                IN /\ wrapper'.trace.distinguish_frontier = adjusted.trace.distinguish_frontier
                   /\ wrapper'.through_frontiers = adjusted.through_frontiers]_vars

\* two handles hold [(3, 0)]; cursor_through has returned a cursor and the
\* callback of map_batches is running
FrontiersChangeByAdjustWitness ==
    /\ made /\ Live = {1, 2}
    /\ inside = 1 /\ borrows = 1
    /\ ret = Some(<<"cursor", {<<3, 0>>}>>)
    /\ wrapper.advance_frontiers[<<3, 0>>] = 2
    /\ wrapper.trace.advance_frontier = {<<3, 0>>}
    /\ wrapper.trace.distinguish_frontier = {<<0, 0>>}

(***************************************************************************)
(* Callers that keep the contract of advance_by and distinguish_since: a   *)
(* handle is only handed a frontier >= the one it declared before.         *)
(***************************************************************************)
advance_by_forward(h, f) ==
    /\ AntichainLe(Range(handles[h].advance_frontier), Range(f))
    /\ advance_by(h, f)

distinguish_since_forward(h, f) ==
    /\ AntichainLe(Range(handles[h].through_frontier), Range(f))
    /\ distinguish_since(h, f)

NextMonotone ==
    \/ make_from
    \/ \E h \in Handle : \E f \in RcFrontiers : advance_by_forward(h, f)
    \/ \E h \in Handle : \E f \in RcFrontiers : distinguish_since_forward(h, f)
    \/ \E h \in Handle : clone(h)
    \/ \E h \in Handle : drop(h)

SpecMonotone == Init /\ [][NextMonotone]_vars

\* C15: monotone schedule to the trace. When every handle is only handed
\* frontiers >= its own, each advance frontier the trace is handed is >= the
\* one it held before, along every interleaving of make_from, clone,
\* advance_by and drop, and it is the empty frontier, the greatest one, once
\* no handle is live; likewise the distinguish frontier.
MonotoneSchedule ==
    [][/\ AntichainLe(wrapper.trace.advance_frontier, wrapper'.trace.advance_frontier)
       /\ AntichainLe(wrapper.trace.distinguish_frontier, wrapper'.trace.distinguish_frontier)
       /\ (made' /\ \A h \in Handle : ~handles'[h].live) =>
             /\ wrapper'.trace.advance_frontier = {}
             /\ wrapper'.trace.distinguish_frontier = {}]_vars

\* a trace boxed at [(0, 0)] whose only live handle is a clone that moved to
\* two incomparable times: the trace was handed [(0, 0)] and then [(0, 3), (3, 0)]
MonotoneScheduleWitness ==
    /\ made /\ Live = {2}
    /\ handles[2].advance_frontier = <<<<0, 3>>, <<3, 0>>>>
    /\ handles[2].through_frontier = <<<<5, 0>>>>
    /\ wrapper.trace.advance_frontier = {<<0, 3>>, <<3, 0>>}
    /\ wrapper.trace.distinguish_frontier = {<<5, 0>>}
    /\ wrapper.advance_frontiers[<<0, 0>>] = 0

\* C16: advance_by touches one dimension of one handle. h.advance_by(new)
\* leaves h declaring exactly new as its advance frontier, which is what
\* h.advance_frontier() returns, and changes neither h's through frontier,
\* nor the through multiset, nor the distinguish frontier of the trace, nor
\* any other handle; h.distinguish_since(new) likewise changes only h's
\* through frontier and the through dimension of the box.
AdvanceByFrame ==
    [][\A h \in Handle :
        /\ \A f \in ReadFrontiers :
            /\ advance_by(h, f) =>
                  /\ handles'[h] = [handles[h] EXCEPT !.advance_frontier = f]
                  /\ \A g \in Handle \ {h} : handles'[g] = handles[g]
                  /\ wrapper'.through_frontiers = wrapper.through_frontiers
                  /\ wrapper'.trace.distinguish_frontier = wrapper.trace.distinguish_frontier
            /\ distinguish_since(h, f) =>
                  /\ handles'[h] = [handles[h] EXCEPT !.through_frontier = f]
                  /\ \A g \in Handle \ {h} : handles'[g] = handles[g]
                  /\ wrapper'.advance_frontiers = wrapper.advance_frontiers
                  /\ wrapper'.trace.advance_frontier = wrapper.trace.advance_frontier
        /\ advance_frontier(h) => ret' = <<"frontier", handles[h].advance_frontier>>
        /\ distinguish_frontier(h) => ret' = <<"frontier", handles[h].through_frontier>>]_vars

\* handle 1 was advanced to [(3, 0)] while handle 2 stayed at [(0, 0)]:
\* advance_frontier() of handle 1 has returned [(3, 0)], and the aggregate
\* the trace holds is [(0, 0)]
AdvanceByFrameWitness ==
    /\ made /\ Live = {1, 2}
    /\ handles[1].advance_frontier = <<<<3, 0>>>>
    /\ handles[2].advance_frontier = <<<<0, 0>>>>
    /\ handles[1].through_frontier = <<<<0, 0>>>>
    /\ ret = <<"frontier", <<<<3, 0>>>>>>
    /\ wrapper.trace.advance_frontier = {<<0, 0>>}
    /\ wrapper.trace.distinguish_frontier = {<<0, 0>>}

\* C17: clone neither releases nor adds restrictions. Cloning a live handle h
\* makes one new handle whose advance and through frontiers are those of h,
\* leaves h and every other handle as they were, raises the count of every
\* time by its number of occurrences in h's advance (through) frontier, and
\* leaves the minimal elements of both multisets, and so the frontiers the
\* trace is handed during the clone, as they were before it.
CloneDeposits ==
    [][\A h \in Handle : clone(h) =>
        /\ \E n \in Handle :
              /\ ~handles[n].live /\ handles'[n].live
              /\ handles'[n].advance_frontier = handles[h].advance_frontier
              /\ handles'[n].through_frontier = handles[h].through_frontier
              /\ \A g \in Handle \ {n} : handles'[g] = handles[g]
        /\ \A t \in RcTime :
              /\ wrapper'.advance_frontiers[t] =
                    wrapper.advance_frontiers[t] + Occurrences(handles[h].advance_frontier, t)
              /\ wrapper'.through_frontiers[t] =
                    wrapper.through_frontiers[t] + Occurrences(handles[h].through_frontier, t)
        /\ elements(wrapper'.advance_frontiers) = elements(wrapper.advance_frontiers)
        /\ elements(wrapper'.through_frontiers) = elements(wrapper.through_frontiers)
        /\ wrapper'.trace.advance_frontier = elements(wrapper.advance_frontiers)
        /\ wrapper'.trace.distinguish_frontier = elements(wrapper.through_frontiers)
        /\ wrapper'.trace = wrapper.trace]_vars

\* a handle that holds [(3, 0), (3, 0)] and [(0, 3), (3, 0)] has been cloned:
\* the counts are twice its occurrences
CloneDepositsWitness ==
    /\ made /\ Live = {1, 2}
    /\ handles[1] = handles[2]
    /\ handles[1].advance_frontier = <<<<3, 0>>, <<3, 0>>>>
    /\ handles[1].through_frontier = <<<<0, 3>>, <<3, 0>>>>
    /\ wrapper.advance_frontiers[<<3, 0>>] = 4
    /\ wrapper.through_frontiers[<<3, 0>>] = 2
    /\ wrapper.through_frontiers[<<0, 3>>] = 2
    /\ wrapper.trace.advance_frontier = {<<3, 0>>}
    /\ wrapper.trace.distinguish_frontier = {<<0, 3>>, <<3, 0>>}

\* C18: advance_ref respects the builder and batch invariants. For a batch
\* whose cursor yields strictly increasing keys, and strictly increasing
\* values within a key, and a non-empty frontier, the tuples advance_ref
\* pushes to the builder are strictly increasing in (key, val, time) under
\* the total Ord, none has a zero diff, and there are at most as many as the
\* batch has updates.
PushesSorted ==
    apc = "done" =>
        /\ \A i \in 1..(Len(pushed) - 1) : UpdateLt(pushed[i], pushed[i + 1])
        /\ \A i \in DOMAIN pushed : pushed[i][4] # 0
        /\ Len(pushed) <= Len(batch.updates)
        /\ advanced.updates = pushed

\* two updates of one (key, val) at different times are advanced to the same
\* time, and pushed as one tuple with the sum of their diffs
PushesSortedWitness ==
    /\ apc = "done"
    /\ Len(batch.updates) = 2
    /\ batch.updates[1][3] # batch.updates[2][3]
    /\ Len(frontier) = 2
    /\ Len(pushed) = 1
    /\ pushed[1][4] = 2

\* C19: an empty frontier is rejected by batch advancement. With an empty
\* frontier advance_ref and advance_mut abort: no batch is returned, nothing
\* is pushed to a builder and the batch is left as it was. With a non-empty
\* frontier advance_mut leaves the batch equal to what advance_ref returns
\* for the same frontier.
EmptyFrontierRejected ==
    [][/\ (apc = "start" /\ Len(frontier) = 0) =>
             /\ apc' \in {"aborted", "aborted in advance_mut"}
             /\ UNCHANGED <<batch, advanced, pushed>>
             /\ pushed' = <<>>
       /\ (apc = "start" /\ apc' \in {"aborted", "aborted in advance_mut"}) =>
             Len(frontier) = 0
       /\ AdvanceMut =>
             /\ Len(frontier) > 0
             /\ batch' = advance_ref(batch, frontier)
             /\ batch'.since = frontier]_vars

\* advance_mut was called with the empty frontier on a batch of two updates
EmptyFrontierRejectedWitness ==
    /\ apc = "aborted in advance_mut"
    /\ frontier = <<>>
    /\ Len(batch.updates) = 2
    /\ batch.since = <<<<1, 0>>>>
    /\ pushed = <<>>
    /\ advanced.updates = <<>>

\* the calls of adjust_advance_frontier and adjust_through_frontier that the
\* handle operations enabled in a state make, as <<dimension, lower, upper>>:
\* advance_by and distinguish_since, clone, drop.  The through call of a clone
\* or drop finds the through multiset as the state holds it
AdjustCalls(fs) ==
    UNION {
        {<<"advance", handles[h].advance_frontier, f>> : f \in fs}
        \cup {<<"through", handles[h].through_frontier, f>> : f \in fs}
        \cup {<<"advance", <<>>, handles[h].advance_frontier>>,
              <<"through", <<>>, handles[h].through_frontier>>,
              <<"advance", handles[h].advance_frontier, <<>> >>,
              <<"through", handles[h].through_frontier, <<>> >>}
        : h \in Live}

\* C20: atomic adjust. A call of adjust_advance_frontier(lower, upper) or
\* adjust_through_frontier(lower, upper) adds 1 for each element of upper,
\* then subtracts 1 for each element of lower, and then hands the trace one
\* frontier, the minimal elements of the resulting multiset: in every call a
\* handle's advance_by, distinguish_since, clone or drop makes, no count is
\* negative after any update, and no frontier of an intermediate multiset is
\* handed to the trace.
AtomicAdjust ==
    made => \A c \in AdjustCalls(ReadFrontiers) :
        LET m == IF c[1] = "advance" THEN wrapper.advance_frontiers
                                     ELSE wrapper.through_frontiers
            lower == c[2]
            upper == c[3]
            steps == adjust_steps(m, lower, upper)
            before(i) == IF i = 1 THEN m ELSE steps[i - 1]
            notes == adjust_notifications(m, lower, upper)
            after == IF c[1] = "advance" THEN adjust_advance_frontier(wrapper, lower, upper)
                                         ELSE adjust_through_frontier(wrapper, lower, upper)
            counts == IF c[1] = "advance" THEN after.advance_frontiers
                                          ELSE after.through_frontiers
            handed == IF c[1] = "advance" THEN after.trace.advance_frontier
                                          ELSE after.trace.distinguish_frontier
        IN /\ Len(steps) = Len(upper) + Len(lower)
           /\ \A i \in DOMAIN upper : steps[i] = update_and(before(i), upper[i], 1)
           /\ \A j \in DOMAIN lower :
                 steps[Len(upper) + j] = update_and(before(Len(upper) + j), lower[j], -1)
           /\ \A i \in DOMAIN steps : \A t \in RcTime : steps[i][t] >= 0
           /\ counts = (IF steps = <<>> THEN m ELSE steps[Len(steps)])
           /\ notes = <<elements(counts)>>
           /\ notes = <<handed>>

\* one handle holds [(0, 0)], the other [(3, 0)], which it is about to give
\* up for the empty frontier: the multiset goes through one step, and the
\* trace is handed [(0, 0)] once; a handle about to move from [(0, 0)] to
\* [(3, 0)] goes through the multiset that holds both
AtomicAdjustWitness ==
    /\ made /\ Live = {1, 2}
    /\ handles[1].advance_frontier = <<<<0, 0>>>>
    /\ handles[2].advance_frontier = <<<<3, 0>>>>
    /\ wrapper.advance_frontiers[<<3, 0>>] = 1
    /\ adjust_steps(wrapper.advance_frontiers, <<<<3, 0>>>>, <<>>)
          = <<[wrapper.advance_frontiers EXCEPT ![<<3, 0>>] = 0]>>
    /\ adjust_notifications(wrapper.advance_frontiers, <<<<3, 0>>>>, <<>>) = <<{<<0, 0>>}>>
    /\ LET steps == adjust_steps(wrapper.advance_frontiers, <<<<0, 0>>>>, <<<<3, 0>>>>)
       IN /\ Len(steps) = 2
          /\ steps[1][<<3, 0>>] = 2 /\ steps[1][<<0, 0>>] = 1
          /\ steps[2][<<3, 0>>] = 2 /\ steps[2][<<0, 0>>] = 0

====
